---- MODULE Spec2Model ----
(***************************************************************************)
(* The ReAct run loop of src/mcp_core.py (ReActAgent.run_react_loop) and   *)
(* the functions it calls: planning call, _handle_response (dispatch),     *)
(* reflect_on_result, check_goal_completion and the except handler that    *)
(* keeps the failure counter.                                              *)
(*                                                                         *)
(* Texts are abstracted to what the code tests of them: whether a result   *)
(* contains the completion token, which return statement produced it, and  *)
(* which verdict token the oracle response carries.  Every external call   *)
(* (reasoning engine, remote session, render, vision) either returns one   *)
(* of its possible shapes or raises; the choice is made with \E.           *)
(*                                                                         *)
(* Spec and FairSpec are one run of the loop; SpecShell puts the programs  *)
(* that connect and start a run around it; SpecClean, SpecObserve,         *)
(* SpecPrompt and SpecOracle apply remove_key, observe_scene, the memory   *)
(* windows of the prompts and the oracle's reading to enumerated inputs;   *)
(* SpecLabel, SpecRender and SpecInfo do the same for the success label of *)
(* a dispatch, the calls of render_scene and the cached scene hierarchy.   *)
(***************************************************************************)
EXTENDS Integers, Sequences, FiniteSets, TLC

\* self.max_steps (50 in __init__); lowered so that runs are enumerable.
max_steps == 6

\* max_consecutive_failures, local of run_react_loop.
max_consecutive_failures == 5

VARIABLES
    pc,                    \* position of run_react_loop
    current_step,          \* self.current_step
    consecutive_failures,  \* local consecutive_failures
    memory,                \* self.memory
    response,              \* planner response of the current step
    result,                \* value returned by _handle_response
    report,                \* value returned by run_react_loop
    called,                \* names passed to session.call_tool in this step
    handled,               \* local handlers executed in this step
    raised,                \* external calls that raised in this step
    planCalls,             \* number of planning calls made in this run
    anyDispatch,           \* some action was dispatched in this run
    hist,                  \* how each finished step ended
    logged,                \* rows appended to the CSV log in this step
    dispatched,            \* number of actions dispatched in this step
    converted,             \* the text-to-action call of this step
    reflectArg,            \* result passed to reflect_on_result in this step
    verdict,               \* answer of the oracle's call in this step
    observed,              \* value returned by observe_scene in this step
    user_suggestions,      \* self.user_suggestions
    observation,           \* local observation of run_react_loop
    promptObs,             \* observation given to create_react_prompt
    scenePushed,           \* paths appended to previous_scene_paths in this step
    obsTag,                \* step passed to observe_scene in this step
    laterCalls,            \* function-call parts after the dispatched one
    shell,                 \* the program that wraps the core
    spc,                   \* position of the shell
    connected,             \* value returned by connect
    attempts,              \* number of calls of connect
    runs,                  \* number of runs of run_react_loop
    cleanups,              \* number of calls of cleanup
    shellExc,              \* an exception left the shell
    schema0,               \* a tool's inputSchema as listed by the server
    schema1,               \* the schema after the first remove_key call
    schema,                \* the same inputSchema, cleaned in place
    target,                \* the key given to remove_key
    cpc,                   \* position of the schema cleaning
    previous_scene_paths,  \* self.previous_scene_paths
    last_scene_path,       \* self.last_scene_path
    files,                 \* PNG files of the output directory
    renders,               \* number of renders Unity has written
    rendered,              \* paths of the observations whose render succeeded
    obsReturn,             \* value returned by the last observe_scene
    fresh,                 \* the last render wrote a new PNG
    observes,              \* number of observe_scene calls made
    ppc,                   \* position of the prompt builders
    memoryIn,              \* self.memory when the prompts are built
    promptMemory,          \* entries rendered by create_react_prompt
    reflectMemory,         \* entries rendered by reflect_on_result
    opc,                   \* position of the oracle
    oracleText,            \* response.text of the oracle's call
    goal_achieved,         \* value returned by check_goal_completion
    lpc,                   \* position of the labelled dispatch
    rawText,               \* text of the tool's response
    labelOutcome,          \* how session.call_tool ended
    success_label,         \* success written to the CSV log
    rpc,                   \* position inside render_scene
    editor,                \* manage_editor commands sent, in order
    trail,                 \* outcomes of the calls render_scene made
    renderRet,             \* value returned by render_scene
    latest_scene_info,     \* self.latest_scene_info
    infoReturn,            \* value returned by scene_info
    infoHist,              \* outcomes of the scene_info calls so far
    promptInfo             \* scene hierarchy text put into the prompt

stepVars == <<observed, user_suggestions, observation, promptObs, scenePushed,
              obsTag, laterCalls>>

loopVars == <<pc, current_step, consecutive_failures, memory, response, result,
              report, called, handled, raised, planCalls, anyDispatch, hist,
              logged, dispatched, converted, reflectArg, verdict, stepVars>>

shellVars == <<shell, spc, connected, attempts, runs, cleanups, shellExc>>

cleanVars == <<schema0, schema1, schema, target, cpc>>

obsVars == <<previous_scene_paths, last_scene_path, files, renders, rendered,
             obsReturn, fresh, observes>>

promptVars == <<ppc, memoryIn, promptMemory, reflectMemory>>

oracleVars == <<opc, oracleText, goal_achieved>>

labelVars == <<lpc, rawText, labelOutcome, success_label>>

renderVars == <<rpc, editor, trail, renderRet>>

infoVars == <<latest_scene_info, infoReturn, infoHist, promptInfo>>

moreVars == <<labelVars, renderVars, infoVars>>

restVars == <<obsVars, promptVars, oracleVars, moreVars>>

vars == <<loopVars, shellVars, cleanVars, restVars>>

----------------------------------------------------------------------------
\* Tool names.

NoCall == "none"

\* The three tools _register_tools adds to the catalog.
LocalCapabilities == {"observe_scene", "scene_info", "ask_user"}

\* A tool of the remote server, as listed by connect.
RemoteTools == {"manage_gameobject"}

Tools == LocalCapabilities \cup RemoteTools

----------------------------------------------------------------------------
\* Responses of the reasoning engine: candidates may be empty, the first
\* candidate may have no content, the parts may or may not hold a function
\* call.  isNone marks Python's None.

Shape(c, k, f) == [isNone |-> FALSE, candidates |-> c, content |-> k, fc |-> f]

None == [isNone |-> TRUE, candidates |-> FALSE, content |-> FALSE, fc |-> NoCall]

Responses ==
    {Shape(FALSE, FALSE, NoCall), Shape(TRUE, FALSE, NoCall)}
        \cup {Shape(TRUE, TRUE, f) : f \in Tools \cup {NoCall}}

\* generate_content either raises or returns a response.
LLMOutcomes == {[exc |-> TRUE, resp |-> None]}
                   \cup {[exc |-> FALSE, resp |-> r] : r \in Responses}

\* session.call_tool: content with/without the success marker, no
\* response or content, or an exception.
RemoteOutcomes == {"success_true", "success_false", "no_response", "raise"}

\* MCPCore.render_scene as seen by observe_scene.
RenderOutcomes == {"ok", "no_renderer", "no_directory", "no_artifact", "raise"}

\* vision_model.generate_content in observe_scene.
VisionOutcomes == {"ok", "raise"}

\* The oracle's reasoning-engine call: a verdict token or an exception.
OracleOutcomes == {"GOAL_ACHIEVED", "GOAL_NOT_ACHIEVED", "GOAL_PARTIAL", "raise"}

\* What the environment decides during one _handle_response: the outcome
\* of each external call the handler may make.  The calls a response cannot
\* lead to are fixed to one outcome, since no code reads them.
\* tool_args of an observe_scene call: the "step" key is absent or holds the
\* number the planner wrote.
NoStepArg == 0
StepArgs == {NoStepArg, 1}

DispatchInputs(resp) ==
    LET found == resp.candidates /\ resp.content /\ resp.fc # NoCall
        obs   == found /\ resp.fc = "observe_scene"
    IN
    [rc     : IF obs THEN {"success_true"} ELSE RemoteOutcomes,
     render : IF obs THEN RenderOutcomes ELSE {"ok"},
     vision : IF obs THEN VisionOutcomes ELSE {"ok"},
     fb     : IF found THEN {[exc |-> TRUE, resp |-> None]} ELSE LLMOutcomes,
     stepOk : IF obs THEN BOOLEAN ELSE {TRUE},
     stepArg: IF obs THEN StepArgs ELSE {NoStepArg},
     later  : 0..1,
     token  : BOOLEAN]

----------------------------------------------------------------------------
\* Values returned by functions.

NoResponse == Shape(FALSE, FALSE, NoCall)

NoResult == [kind |-> "none", token |-> FALSE]

NoReport == [kind |-> "none", steps |-> 0, has_memory |-> FALSE, memory |-> <<>>]

\* "Goal ... successfully completed in N steps!"
SuccessReport(step) ==
    [kind |-> "success", steps |-> step, has_memory |-> FALSE, memory |-> <<>>]

\* "... failed due to 5 consecutive failures. Final memory: ..."
MaxFailuresReport(step, mem) ==
    [kind |-> "max_failures", steps |-> step, has_memory |-> TRUE, memory |-> mem]

\* A max-steps report that serializes only the 5 most recent entries.
MaxStepsReport_window(step, mem) ==
    [kind |-> "max_steps", steps |-> step, has_memory |-> TRUE,
     memory |-> IF Len(mem) > 5 THEN SubSeq(mem, Len(mem) - 4, Len(mem)) ELSE mem]

\* "... not achieved within N steps. Final memory: ..."
MaxStepsReport(step, mem) ==
    [kind |-> "max_steps", steps |-> step, has_memory |-> TRUE, memory |-> mem]

\* The exception leaves run_react_loop: there is no report.
Propagated(step) ==
    [kind |-> "exception", steps |-> step, has_memory |-> FALSE, memory |-> <<>>]

----------------------------------------------------------------------------
\* Functions called by the loop.  Each returns a record; exc tells that the
\* call raised to its caller, raised names the external calls that raised
\* inside it (caught or not).

\* MCPCore.render_scene: every exception is caught and turned into False.
\* The find/create calls go to manage_gameobject; play and stop go to
\* manage_editor unless the renderer could not be created.
render_scene(r) ==
    [ret    |-> (r = "ok"),
     called |-> IF r = "no_renderer" THEN {"manage_gameobject"}
                ELSE {"manage_gameobject", "manage_editor"},
     raised |-> IF r = "raise" THEN {"render"} ELSE {}]

\* observe_scene with the render call outside its try/except.
observe_scene_render_unguarded(r, v) ==
    LET rs == render_scene(r) IN
    [exc    |-> ~rs.ret,
     text   |-> IF ~rs.ret THEN "render_failed"
                ELSE IF v = "raise" THEN "observe_error" ELSE "observation",
     called |-> rs.called,
     raised |-> rs.raised \cup (IF rs.ret /\ v = "raise" THEN {"vision"} ELSE {}),
     pushed |-> IF rs.ret THEN 1 ELSE 0]

\* ReActAgent.observe_scene: the whole body is inside try/except.
observe_scene(r, v) ==
    LET rs == render_scene(r) IN
    [exc    |-> FALSE,
     text   |-> IF ~rs.ret THEN "render_failed"
                ELSE IF v = "raise" THEN "observe_error" ELSE "observation",
     called |-> rs.called,
     raised |-> rs.raised \cup (IF rs.ret /\ v = "raise" THEN {"vision"} ELSE {}),
     pushed |-> IF rs.ret THEN 1 ELSE 0]

\* ReActAgent.scene_info: calls manage_scene, inside try/except.
scene_info(rc) ==
    [exc    |-> FALSE,
     text   |-> IF rc = "raise" THEN "scene_info_error"
                ELSE IF rc = "no_response" THEN "scene_info_failed"
                ELSE "scene_info",
     called |-> {"manage_scene"},
     raised |-> IF rc = "raise" THEN {"remote"} ELSE {}]

\* ReActAgent.reflect_on_result: no try/except around generate_content.
reflect_on_result(llm) ==
    [exc |-> (llm = "raise"), raised |-> IF llm = "raise" THEN {"reflect"} ELSE {}]

\* check_goal_completion without its try/except.
check_goal_completion_no_try(o) ==
    [exc    |-> (o = "raise"),
     ret    |-> (o = "GOAL_ACHIEVED"),
     raised |-> IF o = "raise" THEN {"oracle"} ELSE {}]

\* An oracle that also requires the success label of the step's log row.
check_goal_completion_flagged(o) ==
    [exc    |-> FALSE,
     ret    |-> (o = "GOAL_ACHIEVED" /\ logged # <<>> /\ logged[1].success),
     raised |-> IF o = "raise" THEN {"oracle"} ELSE {}]

\* ReActAgent.check_goal_completion: True iff the response carries
\* GOAL_ACHIEVED; any exception is caught and gives False.
check_goal_completion(o) ==
    [exc    |-> FALSE,
     ret    |-> (o = "GOAL_ACHIEVED"),
     raised |-> IF o = "raise" THEN {"oracle"} ELSE {}]

\* ReActAgent._convert_text_action_to_function_call: the response of the
\* dedicated model, or None when the call raises.
_convert_text_action_to_function_call(llm) ==
    [ret    |-> IF llm.exc THEN None ELSE llm.resp,
     raised |-> IF llm.exc THEN {"fallback"} ELSE {}]

\* A row of the CSV log: function_call, success_label (the result column is
\* text the loop never reads).
LogRow(name, success) == [action |-> name, success |-> success]

\* success = True if '"success": true' in response_text.lower() else False
SuccessLabel(rc) == (rc = "success_true")

\* The text-to-action call of a step: whether it was made and the function
\* call its response holds.
NoConversion == [made |-> FALSE, fc |-> NoCall]

\* Both dispatchers return from inside their loop over the parts at the
\* first function call: the later function-call parts of the response are
\* not reached.
executed_calls_every_part(later) == 1 + later

executed_calls(later) == 1

\* step = tool_args.get("step", int(self.current_step)).
observe_step(stepArg, current) ==
    IF stepArg = NoStepArg THEN current ELSE stepArg

\* ReActAgent.execute_action: the first function call found is sent to
\* session.call_tool whatever its name, and logged; without one the
\* function falls off its end and returns None.
execute_action(action, rc, later) ==
    IF ~action.candidates
    THEN [ret |-> "dict", called |-> {}, raised |-> {}, dispatched |-> 0,
          logged |-> <<>>]
    ELSE IF ~action.content \/ action.fc = NoCall
    THEN [ret |-> "None", called |-> {}, raised |-> {}, dispatched |-> 0,
          logged |-> <<>>]
    ELSE [ret |-> "dict", called |-> {action.fc},
          raised |-> IF rc = "raise" THEN {"remote"} ELSE {},
          dispatched |-> executed_calls(later),
          logged |-> <<LogRow(action.fc, SuccessLabel(rc))>>]

\* The text of a remote call's outcome in _handle_response.
ToolKind(rc) ==
    IF rc = "raise" THEN "tool_error"
    ELSE IF rc = "no_response" THEN "tool_no_response" ELSE "tool"

\* The remote branch with the exception of call_tool left uncaught.
dispatch_remote_no_try(name, rc) ==
    [exc     |-> (rc = "raise"),
     kind    |-> ToolKind(rc),
     called  |-> {name},
     raised  |-> IF rc = "raise" THEN {"remote"} ELSE {},
     logged  |-> IF rc = "raise" THEN <<>>
                 ELSE <<LogRow(name, SuccessLabel(rc))>>]

\* The else branch of _handle_response: the call goes to session.call_tool
\* under the action's name; response, missing response and exception each
\* give a text and one log row.
dispatch_remote(name, rc) ==
    [exc     |-> FALSE,
     kind    |-> ToolKind(rc),
     called  |-> {name},
     raised  |-> IF rc = "raise" THEN {"remote"} ELSE {},
     logged  |-> <<LogRow(name, SuccessLabel(rc))>>]

\* function_call_found set as soon as any candidate holds content.
function_call_found_any_content(resp) == resp.candidates /\ resp.content

\* function_call_found: a part of the first candidate's content holds a
\* function call.
function_call_found(resp) ==
    resp.candidates /\ resp.content /\ resp.fc # NoCall

\* ReActAgent._handle_response.  kind names the return statement, token
\* whether the returned text contains TASK_COMPLETE (an empty text cannot).
\* The function catches every exception, so exc is never set.
_handle_response(resp, in) ==
    LET found == function_call_found(resp)
        hasText == resp.candidates /\ resp.content
    IN
    IF found /\ resp.fc = "observe_scene"
    THEN LET o == observe_scene(in.render, in.vision)
             failed == [exc |-> FALSE, kind |-> "observation_error",
                        token |-> in.token, handled |-> {},
                        dispatched |-> executed_calls(in.later),
                        logged |-> <<LogRow(resp.fc, FALSE)>>,
                        conv |-> NoConversion, observed |-> "none"]
         IN
         IF ~in.stepOk
         THEN failed @@ [called |-> {}, raised |-> {}, pushed |-> 0,
                         tagged |-> FALSE]
         ELSE IF o.exc
         THEN failed @@ [called |-> o.called, raised |-> o.raised,
                         pushed |-> o.pushed, tagged |-> TRUE]
         ELSE [exc |-> FALSE, kind |-> "observation", token |-> in.token,
               called |-> o.called, handled |-> {"observe_scene"},
               raised |-> o.raised,
               dispatched |-> executed_calls(in.later), logged |-> <<>>,
               conv |-> NoConversion, observed |-> o.text,
               pushed |-> o.pushed, tagged |-> TRUE]
    ELSE IF found /\ resp.fc = "scene_info"
    THEN LET s == scene_info(in.rc) IN
         [exc |-> FALSE,
          kind |-> "scene_info", token |-> in.token, called |-> s.called,
          handled |-> {"scene_info"}, raised |-> s.raised,
          dispatched |-> executed_calls(in.later),
          logged |-> <<>>, conv |-> NoConversion, observed |-> "none",
          pushed |-> 0, tagged |-> FALSE]
    ELSE IF found
    THEN LET d == dispatch_remote(resp.fc, in.rc) IN
         [exc |-> d.exc,
          kind |-> d.kind, token |-> in.token, called |-> d.called,
          handled |-> {}, raised |-> d.raised,
          dispatched |-> executed_calls(in.later),
          logged |-> d.logged, conv |-> NoConversion, observed |-> "none",
          pushed |-> 0, tagged |-> FALSE]
    ELSE LET conv == _convert_text_action_to_function_call(in.fb) IN
         IF conv.ret.isNone
         THEN [exc |-> FALSE,
               kind |-> "text", token |-> (hasText /\ in.token), called |-> {},
               handled |-> {}, raised |-> conv.raised, dispatched |-> 0,
               logged |-> <<>>, conv |-> [made |-> TRUE, fc |-> NoCall],
               observed |-> "none", pushed |-> 0, tagged |-> FALSE]
         ELSE LET e == execute_action(conv.ret, in.rc, in.later) IN
              [exc |-> FALSE,
               kind |-> "parsed", token |-> in.token, called |-> e.called,
               handled |-> {}, raised |-> conv.raised \cup e.raised,
               dispatched |-> e.dispatched, logged |-> e.logged,
               conv |-> [made |-> TRUE,
                         fc |-> IF conv.ret.candidates /\ conv.ret.content
                                THEN conv.ret.fc ELSE NoCall],
               observed |-> "none", pushed |-> 0, tagged |-> FALSE]

\* A completion test that also accepts any answer of a remote tool.
task_complete_on_tool(r) == r.token \/ r.kind = "tool"

\* A completion test that never finds the token.
task_complete_never(r) == FALSE

\* if "TASK_COMPLETE" in result
task_complete(r) == r.token

\* "No initial observation - agent will use observe_scene tool when needed"
NoObservation == "marker"

\* The end of an iteration: a result holding "Scene observation completed:"
\* replaces the local observation by the text after that marker.
next_observation(obs, res) ==
    IF res.kind = "observation" THEN "observed_text" ELSE obs

\* An entry numbered by its position in memory instead of the loop step.
memory_entry_position(step) == [step |-> Len(memory) + 1]

\* The memory entry of a step (thought, action, result, reflection and
\* timestamp are texts the loop never reads back for its control flow).
memory_entry(step) == [step |-> step]

\* A memory that keeps only its 5 most recent entries.
AppendMemory_window(mem, e) ==
    IF Len(mem) >= 5 THEN Append(Tail(mem), e) ELSE Append(mem, e)

\* An append that puts the new entry in front.
AppendMemory_front(mem, e) == <<e>> \o mem

\* An append that stores the entry twice.
AppendMemory_twice(mem, e) == Append(Append(mem, e), e)

\* self.memory.append(memory_entry)
AppendMemory(mem, e) == Append(mem, e)

\* while self.current_step <= self.max_steps
LoopCondition_inclusive(step) == step <= max_steps

\* The condition of the while loop.
LoopCondition(step) == step < max_steps

\* The reflection call placed outside the try block.
TrySites_reflect_outside == {"plan", "handle", "oracle"}

\* The planning call placed outside the try block.
TrySites_plan_outside == {"handle", "reflect", "oracle"}

\* The calls made inside the try block of run_react_loop.
TrySites == {"plan", "handle", "reflect", "oracle"}

\* How a step can end.
FailedEndings == {"plan_exc", "reflect_exc", "oracle_exc"}

----------------------------------------------------------------------------
\* Tool schemas and their cleaning (remove_key, MCPCore._clean_schema).
\* An inputSchema is JSON data: a scalar, a dict or a list.  A node lists
\* its children in order; a child of a dict carries its key, a child of a
\* list the empty key.  No code reads the order of a dict's keys, so one
\* order per set of keys is enumerated.

\* Nesting depth of the enumerated schemas.
MaxDepth == 2

\* Longest enumerated list.
MaxItems == 2

\* The keys _clean_schema removes.
SchemaJunk == <<"title", "default", "additionalProperties">>

\* Keys of the enumerated dicts, two per schema: the removed keys and
\* "type", which a JSON schema holds and nothing removes.
KeyPairs == {<<"title", "default">>, <<"additionalProperties", "type">>}

KeySeqs(pair) == {<<>>, <<pair[1]>>, <<pair[2]>>, pair}

Scalar == [t |-> "scalar", kids |-> <<>>]

Kid(k, v) == [k |-> k, v |-> v]

DictOf(ks, vs) == [t |-> "dict", kids |-> [i \in 1..Len(ks) |-> Kid(ks[i], vs[i])]]

ListOf(n, vs) == [t |-> "list", kids |-> [i \in 1..n |-> Kid("", vs[i])]]

RECURSIVE Trees(_, _)
Trees(d, pair) ==
    IF d = 0 THEN {Scalar}
    ELSE LET sub == Trees(d - 1, pair) IN
         {Scalar}
           \cup UNION {{DictOf(ks, vs) : vs \in [1..Len(ks) -> sub]} : ks \in KeySeqs(pair)}
           \cup UNION {{ListOf(n, vs) : vs \in [1..n -> sub]} : n \in 0..MaxItems}

\* remove_key that stops at a dict holding the key: it deletes the key and
\* does not clean the remaining values of that dict.
RECURSIVE remove_key_stop_at_hit(_, _)
remove_key_stop_at_hit(container, key) ==
    IF container.t = "dict"
    THEN IF \E i \in DOMAIN container.kids : container.kids[i].k = key
         THEN [t |-> "dict",
               kids |-> SelectSeq(container.kids, LAMBDA e : e.k # key)]
         ELSE [t |-> "dict",
               kids |-> [i \in 1..Len(container.kids) |->
                            Kid(container.kids[i].k,
                                remove_key_stop_at_hit(container.kids[i].v, key))]]
    ELSE IF container.t = "list"
    THEN [t |-> "list",
          kids |-> [i \in 1..Len(container.kids) |->
                       Kid("", remove_key_stop_at_hit(container.kids[i].v, key))]]
    ELSE container

\* remove_key that empties a dict holding the key.
RECURSIVE remove_key_clear(_, _)
remove_key_clear(container, key) ==
    IF container.t = "dict"
    THEN IF \E i \in DOMAIN container.kids : container.kids[i].k = key
         THEN [t |-> "dict", kids |-> <<>>]
         ELSE [t |-> "dict",
               kids |-> [i \in 1..Len(container.kids) |->
                            Kid(container.kids[i].k,
                                remove_key_clear(container.kids[i].v, key))]]
    ELSE IF container.t = "list"
    THEN [t |-> "list",
          kids |-> [i \in 1..Len(container.kids) |->
                       Kid("", remove_key_clear(container.kids[i].v, key))]]
    ELSE container

\* remove_key that deletes the key of a dict but does not look into lists.
RECURSIVE remove_key_skip_lists(_, _)
remove_key_skip_lists(container, key) ==
    IF container.t = "dict"
    THEN LET kept == SelectSeq(container.kids, LAMBDA e : e.k # key) IN
         [t |-> "dict",
          kids |-> [i \in 1..Len(kept) |->
                       Kid(kept[i].k, remove_key_skip_lists(kept[i].v, key))]]
    ELSE container

\* remove_key: delete the key from a dict, then clean every remaining
\* value; clean every element of a list; leave anything else alone.  The
\* code changes the container in place; the operator gives its new value.
RECURSIVE remove_key(_, _)
remove_key(container, key) ==
    IF container.t = "dict"
    THEN LET kept == SelectSeq(container.kids, LAMBDA e : e.k # key) IN
         [t |-> "dict",
          kids |-> [i \in 1..Len(kept) |->
                       Kid(kept[i].k, remove_key(kept[i].v, key))]]
    ELSE IF container.t = "list"
    THEN [t |-> "list",
          kids |-> [i \in 1..Len(container.kids) |->
                       Kid("", remove_key(container.kids[i].v, key))]]
    ELSE container

\* MCPCore._clean_schema: the three remove_key calls on every tool's
\* inputSchema.
_clean_schema(tools) ==
    [i \in 1..Len(tools) |->
        remove_key(remove_key(remove_key(tools[i], SchemaJunk[1]),
                              SchemaJunk[2]), SchemaJunk[3])]

\* No key has been removed yet.
NoKey == "none"

SchemaInit ==
    /\ schema0 = Scalar
    /\ schema1 = Scalar
    /\ schema = Scalar
    /\ target = NoKey
    /\ cpc = "idle"

\* list_tools returned a tool whose inputSchema is any enumerated schema.
InitClean_schemas ==
    /\ schema0 \in UNION {Trees(MaxDepth, pair) : pair \in KeyPairs}
    /\ schema1 = schema0
    /\ schema = schema0
    /\ target = NoKey
    /\ cpc = "listed"

\* remove_key(tool.inputSchema, key), for each key _clean_schema passes.
RemoveKey ==
    /\ cpc = "listed"
    /\ \E key \in {SchemaJunk[i] : i \in DOMAIN SchemaJunk} :
          /\ target' = key
          /\ schema' = remove_key(schema, key)
    /\ schema1' = schema'
    /\ cpc' = "removed"
    /\ UNCHANGED <<schema0, loopVars, shellVars, restVars>>

\* remove_key called again on the structure it has cleaned, with the same
\* key.
RemoveKeyAgain ==
    /\ cpc = "removed"
    /\ schema' = remove_key(schema, target)
    /\ cpc' = "removed_twice"
    /\ UNCHANGED <<schema0, schema1, target, loopVars, shellVars, restVars>>

\* self._clean_schema(tools) in _process_tools
CleanSchema ==
    /\ cpc = "listed"
    /\ schema' = _clean_schema(<<schema>>)[1]
    /\ cpc' = "cleaned"
    /\ UNCHANGED <<schema0, schema1, target, loopVars, shellVars, restVars>>

----------------------------------------------------------------------------
\* Scene observation and the files of the output directory
\* (ReActAgent.observe_scene, step 4 of MCPCore.render_scene).
\* A PNG of the directory is named by a number: 0 is the file Unity's
\* SceneRenderer writes, k > 0 is step_k_scene.png.  files gives each name
\* the number of the render whose picture it holds, 0 when it is absent;
\* shutil.copy2 keeps the modification time, so that number also orders the
\* files by getmtime.

\* Largest step argument of the enumerated observe_scene calls.
MaxStepTag == 2

\* Number of observe_scene calls of an enumerated sequence.
MaxObserves == 4

RendererFile == 0

FileNames == 0..MaxStepTag

NoFiles == [n \in FileNames |-> 0]

\* Play mode: the renderer writes a new PNG or writes nothing; the
\* SceneRenderer object cannot be created; the directory is missing; a
\* call of the session raises.
UnityOutcomes == {"rendered", "nothing", "no_renderer", "no_directory", "raise"}

\* The directory after play mode.
AfterPlay(fs, n, u) ==
    IF u = "rendered" THEN [fs EXCEPT ![RendererFile] = n + 1] ELSE fs

\* max(png_files, key=getmtime): any of the newest files.
LatestFiles(fs) ==
    {k \in FileNames : fs[k] > 0 /\ \A j \in FileNames : fs[j] <= fs[k]}

\* Step 4 of render_scene once the directory is listed: False without PNG
\* files; shutil.copy2 raises SameFileError when the newest file is the
\* target itself, which gives False; otherwise the newest file is copied
\* to the target and the result is True.
copy_latest(fs, latest, filename) ==
    IF LatestFiles(fs) = {} \/ latest = filename
    THEN [ret |-> FALSE, files |-> fs]
    ELSE [ret |-> TRUE, files |-> [fs EXCEPT ![filename] = fs[latest]]]

\* A window that keeps three paths.
push_scene_path_keep3(paths, path) ==
    IF Len(paths) + 1 > 3 THEN Append(Tail(paths), path) ELSE Append(paths, path)

\* previous_scene_paths.append(scene_path), then pop(0) above 2 entries.
push_scene_path(paths, path) ==
    IF Len(paths) + 1 > 2 THEN Append(Tail(paths), path) ELSE Append(paths, path)

ObsIdle ==
    /\ previous_scene_paths = <<>>
    /\ last_scene_path = 0
    /\ files = NoFiles
    /\ renders = 0
    /\ rendered = <<>>
    /\ obsReturn = "none"
    /\ fresh = FALSE
    /\ observes = 0

\* One call observe_scene(step): render to step_<step>_scene.png, push the
\* path on success, ask the vision model.
Observe ==
    /\ observes < MaxObserves
    /\ observes' = observes + 1
    /\ \E step \in 1..MaxStepTag, u \in UnityOutcomes, v \in VisionOutcomes :
          LET fs == AfterPlay(files, renders, u)
              cands == IF LatestFiles(fs) = {} THEN {RendererFile}
                       ELSE LatestFiles(fs)
          IN
          /\ last_scene_path' = step
          /\ fresh' = (u = "rendered")
          /\ renders' = IF u = "rendered" THEN renders + 1 ELSE renders
          /\ \E latest \in cands :
                LET c == IF u \in {"no_renderer", "no_directory", "raise"}
                         THEN [ret |-> FALSE, files |-> fs]
                         ELSE copy_latest(fs, latest, step)
                IN
                /\ files' = c.files
                /\ rendered' = IF c.ret THEN Append(rendered, step)
                               ELSE rendered
                /\ IF ~c.ret
                   THEN /\ obsReturn' = "render_failed"
                        /\ previous_scene_paths' = previous_scene_paths
                   ELSE /\ previous_scene_paths' =
                              push_scene_path(previous_scene_paths, step)
                        /\ obsReturn' = IF v = "raise" THEN "observe_error"
                                        ELSE "observation"
    /\ UNCHANGED <<loopVars, shellVars, cleanVars, promptVars, oracleVars,
                   moreVars>>

----------------------------------------------------------------------------
\* The memory windows of the prompts (create_react_prompt,
\* reflect_on_result).

\* Longest enumerated memory.
MaxMemory == 8

Min(a, b) == IF a < b THEN a ELSE b

\* self.memory[-n:]
RecentEntries(mem, n) ==
    SubSeq(mem, Len(mem) - Min(n, Len(mem)) + 1, Len(mem))

\* A planner prompt that renders the 5 oldest entries.
create_react_prompt_oldest(mem) == SubSeq(mem, 1, Min(5, Len(mem)))

\* create_react_prompt: for i, entry in enumerate(self.memory[-5:], 1)
create_react_prompt(mem) == RecentEntries(mem, 5)

\* reflect_on_result: json.dumps(self.memory[-3:]) if self.memory
reflection_prompt(mem) == RecentEntries(mem, 3)

\* The entries of the given steps in increasing order.
RECURSIVE Ascending(_)
Ascending(S) ==
    IF S = {} THEN <<>>
    ELSE LET m == CHOOSE x \in S : \A y \in S : y <= x
         IN Append(Ascending(S \ {m}), memory_entry(m))

\* Memories of every length up to MaxMemory: the steps that completed a
\* cycle, which leave gaps where a step failed.
Memories == {Ascending(S) : S \in SUBSET (1..MaxMemory)}

PromptIdle ==
    /\ ppc = "idle"
    /\ memoryIn = <<>>
    /\ promptMemory = <<>>
    /\ reflectMemory = <<>>

CreatePrompt ==
    /\ ppc = "ready"
    /\ promptMemory' = create_react_prompt(memoryIn)
    /\ ppc' = "planned"
    /\ UNCHANGED <<memoryIn, reflectMemory, loopVars, shellVars, cleanVars, obsVars,
                   oracleVars, moreVars>>

ReflectPrompt ==
    /\ ppc \in {"ready", "planned"}
    /\ reflectMemory' = reflection_prompt(memoryIn)
    /\ ppc' = "reflected"
    /\ UNCHANGED <<memoryIn, promptMemory, loopVars, shellVars, cleanVars, obsVars,
                   oracleVars, moreVars>>

----------------------------------------------------------------------------
\* The oracle's reading of its response (check_goal_completion).
\* A response text is a sequence of pieces of text.

\* Longest enumerated response, in pieces.
MaxPieces == 4

Pieces == {"GOAL_", "goal_", "NOT_", "ACHIEVED", "achieved", "PARTIAL", " "}

\* str.upper on a piece.
UpperPiece(w) ==
    IF w = "goal_" THEN "GOAL_" ELSE IF w = "achieved" THEN "ACHIEVED" ELSE w

\* result.upper()
Upper(text) == [i \in 1..Len(text) |-> UpperPiece(text[i])]

\* "GOAL_ACHIEVED" in text
ContainsAchieved(text) ==
    \E i \in 1..(Len(text) - 1) : text[i] = "GOAL_" /\ text[i + 1] = "ACHIEVED"

\* A test of the response as it came, without upper().
goal_check_case_sensitive(text, raises) ==
    IF raises THEN FALSE ELSE ContainsAchieved(text)

\* check_goal_completion on the response text: False when the call raised.
goal_check(text, raises) ==
    IF raises THEN FALSE ELSE ContainsAchieved(Upper(text))

OracleTexts == UNION {[1..n -> Pieces] : n \in 0..MaxPieces}

OracleIdle ==
    /\ opc = "idle"
    /\ oracleText = <<>>
    /\ goal_achieved = FALSE

CheckGoal ==
    /\ opc = "asked"
    /\ goal_achieved' = goal_check(oracleText, FALSE)
    /\ opc' = "answered"
    /\ UNCHANGED <<oracleText, loopVars, shellVars, cleanVars, obsVars,
                   promptVars, moreVars>>

CheckGoalRaises ==
    /\ opc = "asked"
    /\ goal_achieved' = goal_check(oracleText, TRUE)
    /\ opc' = "raised"
    /\ UNCHANGED <<oracleText, loopVars, shellVars, cleanVars, obsVars,
                   promptVars, moreVars>>

----------------------------------------------------------------------------
\* The success label of a remote dispatch.  The text of a tool's response is
\* a sequence of pieces, enough to write a JSON object with a success flag
\* in either spacing and either capitalisation of the literal.

\* Longest enumerated response text.
MaxLabelPieces == 5

LabelPieces == {"{", "\"success\"", ": ", ":", "true", "True", "false", "}"}

RawTexts == UNION {[1..n -> LabelPieces] : n \in 0..MaxLabelPieces}

\* str.lower() of one piece.
LowerPiece(p) == IF p = "True" THEN "true" ELSE p

Lower(text) == [i \in DOMAIN text |-> LowerPiece(text[i])]

\* '"success": true' in text
ContainsSuccessTrue(text) ==
    \E i \in 1..(Len(text) - 2) :
        /\ text[i] = "\"success\""
        /\ text[i + 1] = ": "
        /\ text[i + 2] = "true"

\* How session.call_tool ended: a response with content, no response, a
\* response with empty content, or an exception.
CallOutcomes == {"content", "no_response", "no_content", "raise"}

\* success = True if '"success": true' in response_text.lower() else False;
\* the other outcomes log False.
success_flag(outcome, text) ==
    outcome = "content" /\ ContainsSuccessTrue(Lower(text))

LabelIdle ==
    /\ lpc = "idle"
    /\ rawText = <<>>
    /\ labelOutcome = "none"
    /\ success_label = FALSE

\* The call of the tool and the row written for it.
LogDispatch ==
    /\ lpc = "called"
    /\ \E o \in CallOutcomes :
          /\ labelOutcome' = o
          /\ success_label' = success_flag(o, rawText)
    /\ lpc' = "logged"
    /\ UNCHANGED <<rawText, loopVars, shellVars, cleanVars, obsVars,
                   promptVars, oracleVars, renderVars, infoVars>>

----------------------------------------------------------------------------
\* render_scene, call by call.

\* A call of session.call_tool returns a response with content, returns
\* nothing usable, or raises.
ToolReplies == {"content", "empty", "raise"}

\* Step 4 of render_scene: the directory and its newest PNG.
FileOutcomes == {"copied", "copy_error", "no_png", "no_directory", "raise"}

\* An except clause that does not send stop.
on_render_error_no_stop(cmds) == cmds

\* The except clause of render_scene sends manage_editor stop; what that
\* call does is swallowed.
on_render_error(cmds) == Append(cmds, "stop")

RenderIdle ==
    /\ rpc = "idle"
    /\ editor = <<>>
    /\ trail = <<>>
    /\ renderRet = "none"

\* The place a call leads to: the except clause when it raised.
AfterCall(reply, onContent, onEmpty) ==
    IF reply = "raise" THEN "except"
    ELSE IF reply = "content" THEN onContent ELSE onEmpty

\* manage_gameobject find
RenderFind ==
    /\ rpc = "find"
    /\ \E reply \in ToolReplies :
          /\ trail' = Append(trail, <<"find", reply>>)
          /\ rpc' = AfterCall(reply, "play", "create")
    /\ UNCHANGED <<editor, renderRet, loopVars, shellVars, cleanVars, obsVars,
                   promptVars, oracleVars, labelVars, infoVars>>

\* manage_gameobject create; without content render_scene returns False.
RenderCreate ==
    /\ rpc = "create"
    /\ \E reply \in ToolReplies :
          /\ trail' = Append(trail, <<"create", reply>>)
          /\ rpc' = AfterCall(reply, "add_component", "done")
          /\ renderRet' = IF reply = "empty" THEN "False" ELSE renderRet
    /\ UNCHANGED <<editor, loopVars, shellVars, cleanVars, obsVars,
                   promptVars, oracleVars, labelVars, infoVars>>

\* manage_gameobject add_component; its answer is only printed.
RenderAddComponent ==
    /\ rpc = "add_component"
    /\ \E reply \in ToolReplies :
          /\ trail' = Append(trail, <<"add_component", reply>>)
          /\ rpc' = AfterCall(reply, "play", "play")
    /\ UNCHANGED <<editor, renderRet, loopVars, shellVars, cleanVars, obsVars,
                   promptVars, oracleVars, labelVars, infoVars>>

\* manage_editor play; the response is not read.
RenderPlay ==
    /\ rpc = "play"
    /\ editor' = Append(editor, "play")
    /\ \E reply \in ToolReplies :
          /\ trail' = Append(trail, <<"play", reply>>)
          /\ rpc' = AfterCall(reply, "stop", "stop")
    /\ UNCHANGED <<renderRet, loopVars, shellVars, cleanVars, obsVars,
                   promptVars, oracleVars, labelVars, infoVars>>

\* manage_editor stop after the wait; the response is not read.
RenderStop ==
    /\ rpc = "stop"
    /\ editor' = Append(editor, "stop")
    /\ \E reply \in ToolReplies :
          /\ trail' = Append(trail, <<"stop", reply>>)
          /\ rpc' = AfterCall(reply, "files", "files")
    /\ UNCHANGED <<renderRet, loopVars, shellVars, cleanVars, obsVars,
                   promptVars, oracleVars, labelVars, infoVars>>

\* The newest PNG of the directory is copied to the target.
RenderFiles ==
    /\ rpc = "files"
    /\ \E f \in FileOutcomes :
          /\ trail' = Append(trail, <<"files", f>>)
          /\ rpc' = IF f = "raise" THEN "except" ELSE "done"
          /\ renderRet' = IF f = "raise" THEN renderRet
                          ELSE IF f = "copied" THEN "True" ELSE "False"
    /\ UNCHANGED <<editor, loopVars, shellVars, cleanVars, obsVars,
                   promptVars, oracleVars, labelVars, infoVars>>

\* except Exception: stop is sent inside try/except: pass, then False.
RenderExcept ==
    /\ rpc = "except"
    /\ editor' = on_render_error(editor)
    /\ \E reply \in ToolReplies :
          trail' = Append(trail, <<"except", reply>>)
    /\ rpc' = "done"
    /\ renderRet' = "False"
    /\ UNCHANGED <<loopVars, shellVars, cleanVars, obsVars,
                   promptVars, oracleVars, labelVars, infoVars>>

----------------------------------------------------------------------------
\* The cached scene hierarchy.

\* Most scene_info calls of an enumerated agent.
MaxInfoCalls == 3

\* self.latest_scene_info = None
NoSceneInfo == "None"

\* Texts manage_scene answers with.
SceneTexts == {"hierarchy_a", "hierarchy_b"}

\* What the manage_scene call of scene_info does: a response whose first
\* content item has text, a response whose first item has no text (the
\* attribute access raises), no response, empty content, an exception.
SceneReplies ==
    {[kind |-> "content", text |-> t] : t \in SceneTexts}
      \cup {[kind |-> k, text |-> ""] :
               k \in {"no_text", "no_response", "no_content", "raise"}}

\* A scene_info that forgets the cached text when the call fails.
scene_info_cache_forgets(cached, reply) ==
    IF reply.kind = "content" THEN reply.text ELSE NoSceneInfo

\* self.latest_scene_info after scene_info: assigned only on the content
\* path.
scene_info_cache(cached, reply) ==
    IF reply.kind = "content" THEN reply.text ELSE cached

\* The value scene_info returns.
scene_info_return(reply) ==
    IF reply.kind = "content" THEN <<"retrieved", reply.text>>
    ELSE IF reply.kind \in {"no_response", "no_content"}
    THEN <<"failed", "">>
    ELSE <<"error", "">>

InfoIdle ==
    /\ latest_scene_info = NoSceneInfo
    /\ infoReturn = <<"none", "">>
    /\ infoHist = <<>>
    /\ promptInfo = "unread"

\* One scene_info call.
SceneInfo ==
    /\ Len(infoHist) < MaxInfoCalls
    /\ \E reply \in SceneReplies :
          /\ latest_scene_info' = scene_info_cache(latest_scene_info, reply)
          /\ infoReturn' = scene_info_return(reply)
          /\ infoHist' = Append(infoHist, reply)
    /\ UNCHANGED <<promptInfo, loopVars, shellVars, cleanVars, obsVars,
                   promptVars, oracleVars, labelVars, renderVars>>

\* create_react_prompt puts the cached text into the prompt when there is
\* one.
PromptReadsInfo ==
    /\ promptInfo' = IF latest_scene_info # NoSceneInfo
                     THEN latest_scene_info ELSE ""
    /\ UNCHANGED <<latest_scene_info, infoReturn, infoHist, loopVars,
                   shellVars, cleanVars, obsVars, promptVars, oracleVars,
                   labelVars, renderVars>>

MoreIdle == LabelIdle /\ RenderIdle /\ InfoIdle

RestInit == ObsIdle /\ PromptIdle /\ OracleIdle /\ MoreIdle

----------------------------------------------------------------------------
\* The run loop.

\* self.goal .. max_consecutive_failures at the top of run_react_loop, and
\* the fields __init__ sets.
LoopStart ==
    /\ current_step = 0
    /\ consecutive_failures = 0
    /\ memory = <<>>
    /\ response = NoResponse
    /\ result = NoResult
    /\ report = NoReport
    /\ called = {}
    /\ handled = {}
    /\ raised = {}
    /\ planCalls = 0
    /\ anyDispatch = FALSE
    /\ hist = <<>>
    /\ logged = <<>>
    /\ dispatched = 0
    /\ converted = NoConversion
    /\ reflectArg = NoResult
    /\ verdict = "none"
    /\ observed = "none"
    /\ user_suggestions = <<>>
    /\ observation = NoObservation
    /\ promptObs = NoObservation
    /\ scenePushed = 0
    /\ obsTag = 0
    /\ laterCalls = 0

\* A run of run_react_loop on a connected core.
Init ==
    /\ pc = "loop"
    /\ LoopStart
    /\ shell = "none"
    /\ spc = "running"
    /\ connected = TRUE
    /\ attempts = 1
    /\ runs = 1
    /\ cleanups = 0
    /\ shellExc = FALSE
    /\ SchemaInit
    /\ RestInit

\* if consecutive_failures > max_consecutive_failures
OnLLMError_strict(ending) ==
    /\ consecutive_failures' = consecutive_failures + 1
    /\ hist' = Append(hist, ending)
    /\ IF consecutive_failures + 1 > max_consecutive_failures
       THEN /\ pc' = "done"
            /\ report' = MaxFailuresReport(current_step, memory)
       ELSE /\ pc' = "loop"
            /\ report' = report

\* An except clause that counts every failure twice.
OnLLMError_double(ending) ==
    /\ consecutive_failures' = consecutive_failures + 2
    /\ hist' = Append(hist, ending)
    /\ IF consecutive_failures + 2 >= max_consecutive_failures
       THEN /\ pc' = "done"
            /\ report' = MaxFailuresReport(current_step, memory)
       ELSE /\ pc' = "loop"
            /\ report' = report

\* except Exception as llm_error: count the failure, stop at the threshold.
OnLLMError(ending) ==
    /\ consecutive_failures' = consecutive_failures + 1
    /\ hist' = Append(hist, ending)
    /\ IF consecutive_failures + 1 >= max_consecutive_failures
       THEN /\ pc' = "done"
            /\ report' = MaxFailuresReport(current_step, memory)
       ELSE /\ pc' = "loop"
            /\ report' = report

\* An exception raised by a call of the loop body: handled by the except
\* clause when the call is inside the try block, leaving the loop otherwise.
Raise(site, ending) ==
    IF site \in TrySites
    THEN OnLLMError(ending)
    ELSE /\ pc' = "done"
         /\ report' = Propagated(current_step)
         /\ hist' = Append(hist, ending)
         /\ consecutive_failures' = consecutive_failures

\* while self.current_step < self.max_steps: self.current_step += 1
LoopEnter ==
    /\ pc = "loop"
    /\ LoopCondition(current_step)
    /\ current_step' = current_step + 1
    /\ pc' = "plan"
    /\ called' = {}
    /\ handled' = {}
    /\ raised' = {}
    /\ response' = NoResponse
    /\ result' = NoResult
    /\ logged' = <<>>
    /\ dispatched' = 0
    /\ converted' = NoConversion
    /\ reflectArg' = NoResult
    /\ verdict' = "none"
    /\ observed' = "none"
    /\ observation' = NoObservation
    /\ promptObs' = observation'
    /\ scenePushed' = 0
    /\ obsTag' = 0
    /\ laterCalls' = 0
    /\ UNCHANGED <<consecutive_failures, memory, report, planCalls,
                   anyDispatch, hist, user_suggestions, shellVars, cleanVars, restVars>>

\* The loop condition fails: the max-steps report.
LoopExit ==
    /\ pc = "loop"
    /\ ~LoopCondition(current_step)
    /\ pc' = "done"
    /\ report' = MaxStepsReport(current_step, memory)
    /\ UNCHANGED <<current_step, consecutive_failures, memory, response,
                   result, called, handled, raised, planCalls, anyDispatch,
                   hist, logged, dispatched, converted, reflectArg, verdict,
                   stepVars, shellVars, cleanVars, restVars>>

\* The planning call self.reasoning_model.generate_content.
Plan ==
    /\ pc = "plan"
    /\ planCalls' = planCalls + 1
    /\ \E llm \in LLMOutcomes :
          IF llm.exc
          THEN /\ raised' = raised \cup {"plan"}
               /\ Raise("plan", "plan_exc")
               /\ response' = response
          ELSE /\ response' = llm.resp
               /\ pc' = "handle"
               /\ UNCHANGED <<raised, consecutive_failures, report, hist>>
    /\ UNCHANGED <<current_step, memory, result, called, handled, anyDispatch,
                   logged, dispatched, converted, reflectArg, verdict,
                   stepVars, shellVars, cleanVars, restVars>>

\* result = await self._handle_response(response), then the test for the
\* completion token.
Handle ==
    /\ pc = "handle"
    /\ \E in \in DispatchInputs(response) :
          LET r == _handle_response(response, in) IN
          /\ called' = r.called
          /\ handled' = r.handled
          /\ raised' = raised \cup r.raised
          /\ anyDispatch' = (anyDispatch \/ r.dispatched > 0)
          /\ logged' = r.logged
          /\ dispatched' = r.dispatched
          /\ converted' = r.conv
          /\ observed' = r.observed
          /\ scenePushed' = r.pushed
          /\ obsTag' = IF r.tagged
                       THEN observe_step(in.stepArg, current_step) ELSE 0
          /\ laterCalls' = IF r.dispatched > 0 THEN in.later ELSE 0
          /\ IF r.exc
             THEN /\ result' = result
                  /\ Raise("handle", "handle_exc")
             ELSE /\ result' = [kind |-> r.kind, token |-> r.token]
                  /\ consecutive_failures' = consecutive_failures
                  /\ IF task_complete(result')
                     THEN /\ pc' = "done"
                          /\ report' = SuccessReport(current_step)
                          /\ hist' = Append(hist, "token")
                     ELSE /\ pc' = "reflect"
                          /\ UNCHANGED <<report, hist>>
    /\ UNCHANGED <<current_step, memory, response, planCalls, reflectArg,
                   verdict, user_suggestions, observation, promptObs,
                   shellVars, cleanVars, restVars>>

\* reflection = await self.reflect_on_result(action, result), then the
\* memory append.
Reflect ==
    /\ pc = "reflect"
    /\ reflectArg' = result
    /\ \E llm \in {"ok", "raise"} :
          LET r == reflect_on_result(llm) IN
          /\ raised' = raised \cup r.raised
          /\ IF r.exc
             THEN /\ Raise("reflect", "reflect_exc")
                  /\ memory' = memory
             ELSE /\ memory' = AppendMemory(memory, memory_entry(current_step))
                  /\ pc' = "oracle"
                  /\ UNCHANGED <<consecutive_failures, report, hist>>
    /\ UNCHANGED <<current_step, response, result, called, handled, planCalls,
                   anyDispatch, logged, dispatched, converted, verdict,
                   stepVars, shellVars, cleanVars, restVars>>

\* goal_achieved = await self.check_goal_completion(result), then either
\* the success report or the end of the iteration.
Oracle ==
    /\ pc = "oracle"
    /\ \E o \in OracleOutcomes :
          LET r == check_goal_completion(o) IN
          /\ verdict' = o
          /\ raised' = raised \cup r.raised
          /\ IF r.exc
             THEN /\ Raise("oracle", "oracle_exc")
                  /\ observation' = observation
             ELSE /\ hist' = Append(hist, "cycle")
                  /\ consecutive_failures' = consecutive_failures
                  /\ IF r.ret
                     THEN /\ pc' = "done"
                          /\ report' = SuccessReport(current_step)
                          /\ observation' = observation
                     ELSE /\ pc' = "loop"
                          /\ report' = report
                          /\ observation' = next_observation(observation, result)
    /\ UNCHANGED <<current_step, memory, response, result, called, handled,
                   planCalls, anyDispatch, logged, dispatched, converted,
                   reflectArg, observed, user_suggestions, promptObs,
                   scenePushed, obsTag, laterCalls, shellVars, cleanVars,
                   restVars>>

Next == LoopEnter \/ LoopExit \/ Plan \/ Handle \/ Reflect \/ Oracle

Spec == Init /\ [][Next]_vars

\* One sequential control flow in which every external call returns or
\* raises: some step of the loop is always eventually taken.
FairSpec == Spec /\ WF_vars(Next)

----------------------------------------------------------------------------
\* Schema cleaning on its own: every enumerated schema, cleaned once.

InitClean ==
    /\ InitClean_schemas
    /\ pc = "idle"
    /\ LoopStart
    /\ shell = "none"
    /\ spc = "connect"
    /\ connected = FALSE
    /\ attempts = 0
    /\ runs = 0
    /\ cleanups = 0
    /\ shellExc = FALSE
    /\ RestInit

NextClean == RemoveKey \/ RemoveKeyAgain \/ CleanSchema

SpecClean == InitClean /\ [][NextClean]_vars

----------------------------------------------------------------------------
\* The programs that own an MCPCore: they connect, possibly start a run,
\* and clean up.

\* test: test_react_agent and test_simple_goal; example:
\* ReActAgentExamples.run_specific_example; interactive: interactive_mode;
\* web: websocket_endpoint; gui: the Tk client.
ShellKinds == {"test", "example", "interactive", "web", "gui"}

\* Callers whose connect call is inside their try/except/finally.
ConnectInTry == {"web", "example"}

\* The Tk client goes on to its input loop after a failed connect.
StaysAfterFailedConnect == {"gui"}

\* What a caller does after a successful connect: run its goal at once or
\* read input first.
AfterConnect(sh) == IF sh \in {"test", "example"} THEN "run" ELSE "input"

\* Entering the transport, session.initialize, list_tools and
\* _process_tools each return or raise.
ConnectOutcomes == {"ok", "transport_raise", "initialize_raise",
                    "list_tools_raise", "process_tools_raise"}

\* connect without its try/except.
connect_no_try(o) == [exc |-> (o # "ok"), ret |-> (o = "ok")]

\* MCPCore.connect: the whole body is one try; any exception gives False.
connect(o) == [exc |-> FALSE, ret |-> (o = "ok")]

InitShell ==
    /\ shell \in ShellKinds
    /\ spc = "connect"
    /\ connected = FALSE
    /\ attempts = 0
    /\ runs = 0
    /\ cleanups = 0
    /\ shellExc = FALSE
    /\ pc = "idle"
    /\ LoopStart
    /\ SchemaInit
    /\ RestInit

\* connected = await core.connect(server_path) and the test that follows.
ShellConnect ==
    /\ spc = "connect"
    /\ attempts' = attempts + 1
    /\ \E o \in ConnectOutcomes :
          LET c == connect(o) IN
          /\ connected' = (~c.exc /\ c.ret)
          /\ IF c.exc
             THEN /\ spc' = "exit"
                  /\ shellExc' = (shell \notin ConnectInTry)
                  /\ cleanups' = IF shell \in ConnectInTry
                                 THEN cleanups + 1 ELSE cleanups
             ELSE IF ~c.ret
             THEN /\ spc' = IF shell \in StaysAfterFailedConnect
                            THEN "input" ELSE "exit"
                  /\ shellExc' = shellExc
                  /\ cleanups' = IF shell \in ConnectInTry
                                 THEN cleanups + 1 ELSE cleanups
             ELSE /\ spc' = AfterConnect(shell)
                  /\ UNCHANGED <<shellExc, cleanups>>
    /\ UNCHANGED <<shell, runs, loopVars, cleanVars, restVars>>

\* One line of user input.  interactive_mode: quit returns, done starts
\* the run, anything else is added to the goal.  websocket_endpoint: quit
\* breaks, a query calls core.process_request, which MCPCore does not
\* define, so the except clause answers; both end in cleanup.  Tk client:
\* a query's process_request fails inside its coroutine; closing the window
\* ends mainloop and cleans up.
ShellInput ==
    /\ spc = "input"
    /\ \E cmd \in {"quit", "done", "text"} :
          IF shell = "interactive"
          THEN /\ spc' = IF cmd = "quit" THEN "exit"
                         ELSE IF cmd = "done" THEN "run" ELSE "input"
               /\ cleanups' = IF cmd = "quit" THEN cleanups + 1 ELSE cleanups
          ELSE IF shell = "web"
          THEN /\ spc' = "exit"
               /\ cleanups' = cleanups + 1
          ELSE /\ spc' = IF cmd = "quit" THEN "exit" ELSE "input"
               /\ cleanups' = IF cmd = "quit" THEN cleanups + 1 ELSE cleanups
    /\ UNCHANGED <<shell, connected, attempts, runs, shellExc, loopVars,
                   cleanVars, restVars>>

\* The call of run_react_agent.  The tests pass no attachments: the call
\* raises TypeError before run_react_agent is entered, the except clause
\* prints it and finally cleans up.  The others create the agent and enter
\* run_react_loop.
ShellRun ==
    /\ spc = "run"
    /\ IF shell = "test"
       THEN /\ spc' = "exit"
            /\ cleanups' = cleanups + 1
            /\ UNCHANGED <<runs, pc>>
       ELSE /\ spc' = "running"
            /\ runs' = runs + 1
            /\ pc' = "loop"
            /\ cleanups' = cleanups
    /\ UNCHANGED <<shell, connected, attempts, shellExc, current_step,
                   consecutive_failures, memory, response, result, report,
                   called, handled, raised, planCalls, anyDispatch, hist,
                   logged, dispatched, converted, reflectArg, verdict,
                   stepVars, cleanVars, restVars>>

\* run_react_agent returned its report: print it, then finally cleanup.
ShellReturn ==
    /\ spc = "running"
    /\ pc = "done"
    /\ spc' = "exit"
    /\ cleanups' = cleanups + 1
    /\ UNCHANGED <<shell, connected, attempts, runs, shellExc, loopVars,
                   cleanVars, restVars>>

NextShell ==
    \/ ShellConnect \/ ShellInput \/ ShellRun \/ ShellReturn
    \/ LoopEnter \/ LoopExit \/ Plan \/ Handle \/ Reflect \/ Oracle

SpecShell == InitShell /\ [][NextShell]_vars

----------------------------------------------------------------------------
\* Sequences of observe_scene calls, the prompt windows and the oracle's
\* reading, each on its own.

\* No run and no shell.
Idle ==
    /\ pc = "idle"
    /\ LoopStart
    /\ shell = "none"
    /\ spc = "connect"
    /\ connected = FALSE
    /\ attempts = 0
    /\ runs = 0
    /\ cleanups = 0
    /\ shellExc = FALSE
    /\ SchemaInit

\* A new agent and an empty output directory.
InitObserve == Idle /\ ObsIdle /\ PromptIdle /\ OracleIdle /\ MoreIdle

SpecObserve == InitObserve /\ [][Observe]_vars

InitPrompt ==
    /\ Idle /\ ObsIdle /\ OracleIdle /\ MoreIdle
    /\ ppc = "ready"
    /\ memoryIn \in Memories
    /\ promptMemory = <<>>
    /\ reflectMemory = <<>>

NextPrompt == CreatePrompt \/ ReflectPrompt

SpecPrompt == InitPrompt /\ [][NextPrompt]_vars

InitOracle ==
    /\ Idle /\ ObsIdle /\ PromptIdle /\ MoreIdle
    /\ opc = "asked"
    /\ oracleText \in OracleTexts
    /\ goal_achieved = FALSE

NextOracle == CheckGoal \/ CheckGoalRaises

SpecOracle == InitOracle /\ [][NextOracle]_vars

\* A remote tool was called and its response text is any enumerated text.
InitLabel ==
    /\ Idle /\ ObsIdle /\ PromptIdle /\ OracleIdle /\ RenderIdle /\ InfoIdle
    /\ lpc = "called"
    /\ rawText \in RawTexts
    /\ labelOutcome = "none"
    /\ success_label = FALSE

SpecLabel == InitLabel /\ [][LogDispatch]_vars

\* render_scene has been entered.
InitRender ==
    /\ Idle /\ ObsIdle /\ PromptIdle /\ OracleIdle /\ LabelIdle /\ InfoIdle
    /\ rpc = "find"
    /\ editor = <<>>
    /\ trail = <<>>
    /\ renderRet = "none"

NextRender ==
    \/ RenderFind \/ RenderCreate \/ RenderAddComponent \/ RenderPlay
    \/ RenderStop \/ RenderFiles \/ RenderExcept

SpecRender == InitRender /\ [][NextRender]_vars

\* A new agent: nothing cached.
InitInfo ==
    /\ Idle /\ ObsIdle /\ PromptIdle /\ OracleIdle /\ LabelIdle /\ RenderIdle
    /\ InfoIdle

NextInfo == SceneInfo \/ PromptReadsInfo

SpecInfo == InitInfo /\ [][NextInfo]_vars

TypeOK ==
    /\ pc \in {"idle", "loop", "plan", "handle", "reflect", "oracle", "done"}
    /\ current_step \in 0..(max_steps + 1)
    /\ consecutive_failures \in 0..max_consecutive_failures
    /\ report.kind \in {"none", "success", "max_steps", "max_failures", "exception"}

----------------------------------------------------------------------------
\* Helpers of the properties.

Last(h) == h[Len(h)]

\* Number of finished steps that ended the given way.
Count(h, endings) == Cardinality({i \in 1..Len(h) : h[i] \in endings})

\* External calls made while dispatching.
DispatchSites == {"remote", "render", "vision", "fallback"}

----------------------------------------------------------------------------
\* C1: an exception raised by an external dependency at any point of an
\* iteration never leaves run_react_loop: the dispatch still yields a
\* result, and a run that ended in a step where something raised ended
\* with one of the reports, the max-failures report only at the threshold
\* and the max-steps report only with the budget used up.
NoExceptionLeavesLoop ==
    /\ report.kind # "exception"
    /\ (raised \cap DispatchSites # {}) => result.kind # "none"
    /\ (raised # {} /\ pc = "done") =>
          /\ report.kind \in {"success", "max_failures", "max_steps"}
          /\ report.kind = "max_failures" =>
                 consecutive_failures >= max_consecutive_failures
          /\ report.kind = "max_steps" => current_step >= max_steps
    /\ (raised # {} /\ pc # "done") => report.kind = "none"

\* A step in which the remote call and the oracle both raised, after which
\* the loop goes on.
RaisedAndContinued ==
    /\ pc = "loop"
    /\ report.kind = "none"
    /\ {"remote", "oracle"} \subseteq raised
    /\ current_step < max_steps

\* C2: the number of planning calls never exceeds max_steps and
\* 0 <= current_step <= max_steps in every state.
PlanningCallsBounded ==
    /\ planCalls <= max_steps
    /\ 0 <= current_step
    /\ current_step <= max_steps

\* The budget used up by a mix of completed cycles and failed steps.
BudgetUsedByMixedRun ==
    /\ planCalls = max_steps
    /\ current_step = max_steps
    /\ Count(hist, {"plan_exc"}) > 0
    /\ Count(hist, {"reflect_exc"}) > 0
    /\ Len(memory) > 0

\* C3: every run eventually returns, and what it returns is the success
\* report (completion token in the result, or oracle verdict true at the
\* end of a cycle), the max-steps report or the max-failures report.
RunTerminates ==
    /\ <>(pc = "done")
    /\ [](pc = "done" =>
            /\ report.kind \in {"success", "max_steps", "max_failures"}
            /\ report.kind = "success" =>
                   (result.token \/ Last(hist) = "cycle")
            /\ report.kind = "max_steps" => current_step = max_steps
            /\ report.kind = "max_failures" =>
                   consecutive_failures = max_consecutive_failures)

\* A run that used its whole budget without reaching the goal.
EndedByMaxSteps ==
    /\ pc = "done"
    /\ report.kind = "max_steps"
    /\ Len(memory) = max_steps

\* C4: the failure counter is 0 right after a step that completed the
\* planning, dispatching, reflecting cycle without an exception.
CounterZeroAfterCycle ==
    (pc \in {"loop", "done"} /\ hist # <<>> /\ Last(hist) = "cycle")
        => consecutive_failures = 0

\* C5: the max-failures report is returned only when the 5 most recent
\* steps each ended in a reasoning-engine exception.
AbortOnlyAfterConsecutiveFailures ==
    report.kind = "max_failures" =>
        /\ Len(hist) >= max_consecutive_failures
        /\ \A i \in (Len(hist) - max_consecutive_failures + 1)..Len(hist) :
              hist[i] \in FailedEndings

\* C6: when the planning call raises in each of the first 5 steps, the run
\* ends at step 5 with the max-failures report, nothing was dispatched and
\* the memory serialized in the report is empty.
FivePlanningFailuresAbort ==
    (Len(hist) >= 5 /\ \A i \in 1..5 : hist[i] = "plan_exc") =>
        /\ pc = "done"
        /\ report.kind = "max_failures"
        /\ report.steps = 5
        /\ current_step = 5
        /\ planCalls = 5
        /\ ~anyDispatch
        /\ report.has_memory
        /\ report.memory = <<>>
        /\ memory = <<>>

\* Five steps, each ended by the planning call raising.
FivePlanningFailures ==
    /\ Len(hist) = 5
    /\ \A i \in 1..5 : hist[i] = "plan_exc"

\* C7: the length of memory is the number of steps in which the dispatch
\* was followed by a completed reflection; steps ended by an exception or
\* by the completion token add no entry.
MemoryCountsCompletedCycles ==
    Len(memory) = Count(hist, {"cycle"}) + (IF pc = "oracle" THEN 1 ELSE 0)

\* A run with completed cycles, a step lost to a reflection exception and a
\* last step ended by the completion token.
CyclesAmongOtherEndings ==
    /\ Len(memory) >= 2
    /\ Count(hist, {"reflect_exc"}) > 0
    /\ Count(hist, {"plan_exc"}) > 0
    /\ hist # <<>>
    /\ Last(hist) = "token"

\* C8 as stated: the step fields of consecutive memory entries differ by
\* exactly 1.
StepsIncreaseByExactlyOne ==
    \A i \in 1..(Len(memory) - 1) : memory[i + 1].step = memory[i].step + 1

\* C8 amended: the step fields are strictly increasing, each entry carries
\* the number of the iteration that appended it, and two consecutive
\* entries differ by 1 plus the number of steps between them that ended in
\* a reasoning-engine exception.
StepsStrictlyIncreasing ==
    /\ \A i \in 1..Len(memory) :
          /\ memory[i].step \in 1..current_step
          /\ memory[i].step <= Len(hist) => hist[memory[i].step] = "cycle"
    /\ \A i \in 1..(Len(memory) - 1) :
          /\ memory[i + 1].step > memory[i].step
          /\ memory[i + 1].step - memory[i].step =
                1 + Cardinality({j \in (memory[i].step + 1)..(memory[i + 1].step - 1) :
                                    hist[j] \in FailedEndings})

\* Two consecutive memory entries with a failed step between them.
MemoryStepGap ==
    \E i \in 1..(Len(memory) - 1) : memory[i + 1].step >= memory[i].step + 2

\* C9: when the oracle's reasoning-engine call raises, the run does not
\* end in that step, the failure counter keeps its value and the loop goes
\* on to the next step.
OracleExceptionContinues ==
    [][(pc = "oracle" /\ "oracle" \in raised') =>
          /\ pc' = "loop"
          /\ report' = report
          /\ report'.kind = "none"
          /\ consecutive_failures' = consecutive_failures
          /\ memory' = memory]_vars

\* The oracle raised at the end of a cycle and the loop is at its head.
OracleRaisedLoopContinues ==
    /\ pc = "loop"
    /\ "oracle" \in raised
    /\ Last(hist) = "cycle"
    /\ report.kind = "none"
    /\ consecutive_failures > 0

\* C10: a structured action of the planner naming observe_scene,
\* scene_info or ask_user is never forwarded under that name to
\* session.call_tool.
LocalNeverForwarded ==
    (result.kind # "none" /\ response.fc \in LocalCapabilities)
        => response.fc \notin called

\* C11: when the planner's response holds no function call and the
\* text-to-action call returns a function call naming observe_scene,
\* scene_info or ask_user, the action is run by the local handler and is
\* not sent to session.call_tool.
FallbackLocalHandledLocally ==
    (result.kind # "none" /\ converted.made /\ converted.fc \in LocalCapabilities)
        => (converted.fc \in handled /\ converted.fc \notin called)

\* C12: every dispatched action of a step adds exactly one row to the
\* function-call log: after the dispatch the step's rows are as many as its
\* dispatched actions.
OneLogRowPerDispatch ==
    result.kind # "none" => Len(logged) = dispatched

\* C13: a dispatch in which the remote call raises or gives no response
\* or content leaves consecutive_failures as it was and yields a result
\* text, with which the step goes on.
DispatchFailureNotCounted ==
    [][(pc = "handle" /\ ("remote" \in raised'
                            \/ result'.kind \in {"tool_error", "tool_no_response"}))
          => /\ consecutive_failures' = consecutive_failures
             /\ result'.kind # "none"
             /\ pc' \in {"reflect", "done"}]_vars

DispatchFailedCounterKept ==
    /\ pc = "reflect"
    /\ result.kind = "tool_error"
    /\ "remote" \in raised
    /\ consecutive_failures > 0
    /\ consecutive_failures = Count(hist, FailedEndings)

\* C14: a dispatch whose result lacks the completion token is followed,
\* in the same step, by the call of reflect_on_result with that result,
\* whatever the dispatch's outcome.
ReflectorFollowsDispatch ==
    [][/\ (pc = "handle" /\ ~result'.token)
            => (pc' = "reflect" /\ current_step' = current_step)
       /\ pc = "reflect"
            => (reflectArg' = result /\ result' = result
                  /\ current_step' = current_step)]_vars

ReflectedOnFailedDispatch ==
    /\ pc = "oracle"
    /\ result.kind = "tool_error"
    /\ ~result.token
    /\ reflectArg = result

\* C15: when the result of the dispatch contains TASK_COMPLETE the run
\* returns the success report in that step; reflect_on_result and
\* check_goal_completion are not called, memory gets no entry, and nothing
\* of the run changes afterwards.
TokenShortCircuits ==
    [][/\ (pc = "handle" /\ result'.token)
            => /\ pc' = "done"
               /\ report' = SuccessReport(current_step)
               /\ current_step' = current_step
               /\ memory' = memory
               /\ reflectArg' = NoResult
               /\ verdict' = "none"
       /\ result.token => UNCHANGED loopVars]_vars

TokenEndedRun ==
    /\ pc = "done"
    /\ result.token
    /\ report = SuccessReport(current_step)
    /\ Len(memory) > 0
    /\ Len(memory) < current_step

\* C16: when the reasoning-engine call of reflect_on_result raises, the
\* step's memory entry is still appended and consecutive_failures is not
\* incremented.
ReflectorNeverRaises ==
    [][(pc = "reflect" /\ "reflect" \in raised')
          => /\ Len(memory') = Len(memory) + 1
             /\ consecutive_failures' = consecutive_failures]_vars

\* C19: the report of a run ended by max steps or by max failures
\* holds the whole memory: every entry appended during the run, in order.
ExhaustionReportHasWholeMemory ==
    report.kind \in {"max_steps", "max_failures"}
        => /\ report.has_memory
           /\ report.memory = memory
           /\ Len(report.memory) = Count(hist, {"cycle"})

ReportLongerThanWindow ==
    /\ report.kind = "max_steps"
    /\ Len(report.memory) > 5

\* C20: whether the run ends as successful is decided by the completion
\* token and by the oracle's verdict alone, so two runs that differ only in
\* a success label decide alike: labelled true with a verdict other than
\* GOAL_ACHIEVED the step continues, labelled false with GOAL_ACHIEVED the
\* run ends as complete.
SuccessLabelIrrelevant ==
    [][/\ pc = "handle" => ((pc' = "done" /\ report'.kind = "success")
                              <=> result'.token)
       /\ pc = "oracle" => ((pc' = "done" /\ report'.kind = "success")
                              <=> verdict' = "GOAL_ACHIEVED")
       /\ (pc = "oracle" /\ verdict' # "GOAL_ACHIEVED") => pc' = "loop"]_vars

FailedLabelGoalAchieved ==
    /\ pc = "done"
    /\ report.kind = "success"
    /\ verdict = "GOAL_ACHIEVED"
    /\ logged # <<>>
    /\ ~logged[1].success

\* The key occurs in a dict of the structure, at some depth.
RECURSIVE Occurs(_, _)
Occurs(c, key) ==
    \/ c.t = "dict" /\ \E i \in DOMAIN c.kids : c.kids[i].k = key
    \/ \E i \in DOMAIN c.kids : Occurs(c.kids[i].v, key)

\* C17: after remove_key the structure holds the target key at no
\* depth, whatever nesting of dicts and lists it was built from; after
\* _clean_schema a tool's inputSchema holds none of title, default and
\* additionalProperties.
KeyRemovedAtEveryDepth ==
    /\ cpc = "removed" => ~Occurs(schema, target)
    /\ cpc = "cleaned" =>
          \A i \in DOMAIN SchemaJunk : ~Occurs(schema, SchemaJunk[i])

KeyRemovedInsideList ==
    /\ cpc = "removed"
    /\ schema0.t = "list"
    /\ \E i \in DOMAIN schema0.kids :
          /\ schema0.kids[i].v.t = "dict"
          /\ \E j \in DOMAIN schema0.kids[i].v.kids :
                schema0.kids[i].v.kids[j].k = target
    /\ ~Occurs(schema, target)

\* C18: connect is attempted once and no exception of it reaches the
\* caller; in every caller, once connect returned False, run_react_agent is
\* never entered and neither the step counter nor the planning calls leave
\* zero.
ConnectFailureStopsCaller ==
    /\ attempts <= 1
    /\ ~shellExc
    /\ (attempts = 1 /\ ~connected)
          => (runs = 0 /\ pc = "idle" /\ current_step = 0 /\ planCalls = 0)

ConnectFailedCallerLeft ==
    /\ shell = "interactive"
    /\ attempts = 1
    /\ ~connected
    /\ spc = "exit"
    /\ runs = 0

\* C21: when an observation fails (render_scene returns False or a call
\* inside observe_scene or render_scene raises), observe_scene returns a
\* failure text, which _handle_response returns as the step's result;
\* consecutive_failures keeps its value and, the text holding no completion
\* token, the same step goes on to the reflection.
ObservationFailureGivesText ==
    [][(pc = "handle"
          /\ (observed' \in {"render_failed", "observe_error"}
                \/ raised' \cap {"render", "vision"} # {}))
          => /\ observed' \in {"render_failed", "observe_error"}
             /\ result'.kind = "observation"
             /\ consecutive_failures' = consecutive_failures
             /\ current_step' = current_step
             /\ pc' \in {"reflect", "done"}
             /\ ~result'.token => pc' = "reflect"]_vars

RenderRaisedStepReflects ==
    /\ pc = "reflect"
    /\ observed = "render_failed"
    /\ "render" \in raised
    /\ consecutive_failures = Count(hist, FailedEndings)
    /\ Len(memory) > 0

\* C22: when the planner's function call names ask_user, the agent's
\* ask_user handler runs and the operator's reply is in user_suggestions,
\* tagged with the current step, when the dispatch returns.
AskUserRecordsSuggestion ==
    (result.kind # "none" /\ function_call_found(response)
        /\ response.fc = "ask_user")
        => /\ "ask_user" \in handled
           /\ user_suggestions # <<>>
           /\ Last(user_suggestions).step = current_step

\* C23: a step whose planning call raises dispatches nothing, reflects on
\* nothing, asks no oracle and appends nothing: memory, the log, the scene
\* window and the suggestions keep their values, while the step's entry
\* added 1 to current_step and its except clause adds 1 to
\* consecutive_failures.
PlanFailureFrame ==
    [][/\ (pc = "loop" /\ pc' = "plan")
            => /\ current_step' = current_step + 1
               /\ consecutive_failures' = consecutive_failures
               /\ memory' = memory
               /\ user_suggestions' = user_suggestions
               /\ logged' = <<>> /\ scenePushed' = 0
       /\ (pc = "plan" /\ "plan" \in raised')
            => /\ current_step' = current_step
               /\ consecutive_failures' = consecutive_failures + 1
               /\ memory' = memory
               /\ user_suggestions' = user_suggestions
               /\ logged' = <<>> /\ scenePushed' = 0
               /\ dispatched' = 0 /\ called' = {} /\ handled' = {}
               /\ result' = NoResult
               /\ reflectArg' = NoResult
               /\ verdict' = "none"
               /\ pc' \in {"loop", "done"}]_vars

PlanFailedAfterWork ==
    /\ pc = "loop"
    /\ hist # <<>>
    /\ Last(hist) = "plan_exc"
    /\ Len(memory) > 0
    /\ anyDispatch
    /\ logged = <<>>
    /\ consecutive_failures = 1

\* C24: after a step whose action was a completed scene observation, the
\* prompt of the next step is built with that observation's text.
NextPromptEmbedsObservation ==
    [][(pc = "loop" /\ pc' = "plan" /\ hist # <<>> /\ Last(hist) = "cycle"
          /\ observed = "observation")
          => promptObs' = "observed_text"]_vars

\* C25: the text-to-action call of a step is made exactly when the first
\* candidate of the planner's response holds no function call, a response
\* without candidates or content included; a function call that is present
\* is dispatched itself, with no text-to-action call.
FallbackExactlyWithoutCall ==
    result.kind # "none" =>
       LET present == response.candidates /\ response.content
                         /\ response.fc # NoCall
       IN /\ converted.made <=> ~present
          /\ present => (dispatched = 1 /\ result.kind \notin {"text", "parsed"})

FallbackOnEmptyResponse ==
    /\ result.kind # "none"
    /\ ~response.candidates
    /\ converted.made
    /\ converted.fc # NoCall

FreshArtifactOrFailure ==
    /\ obsReturn \in {"observation", "observe_error"} => fresh
    /\ (observes > 0 /\ ~fresh) => obsReturn = "render_failed"

\* C28: for a memory of m entries the planner's prompt renders its
\* min(5, m) last entries and the reflector's prompt its min(3, m) last
\* entries, oldest first, and memory keeps all m.
PromptWindows ==
    LET m == Len(memoryIn) IN
    /\ ppc \in {"planned", "reflected"} =>
          LET k == Len(promptMemory) IN
          /\ ppc = "planned" => k = Min(5, m)
          /\ \A i \in 1..k : promptMemory[i] = memoryIn[m - k + i]
    /\ ppc = "reflected" =>
          LET k == Len(reflectMemory) IN
          /\ k = Min(3, m)
          /\ \A i \in 1..k : reflectMemory[i] = memoryIn[m - k + i]

WindowsOfLongMemory ==
    /\ ppc = "reflected"
    /\ Len(memoryIn) > 5
    /\ Len(promptMemory) = 5
    /\ Len(reflectMemory) = 3
    /\ memoryIn[1].step < promptMemory[1].step

\* C29: within a run memory is append-only: every step leaves the
\* memory it found as a prefix of the memory it leaves.
MemoryAppendOnly ==
    [][/\ Len(memory') >= Len(memory)
       /\ SubSeq(memory', 1, Len(memory)) = memory]_vars

ThreeEntriesAppended ==
    /\ pc = "oracle"
    /\ Len(memory) = 3
    /\ current_step > 3

\* C30: check_goal_completion returns True exactly when the uppercased
\* response contains GOAL_ACHIEVED; GOAL_NOT_ACHIEVED and GOAL_PARTIAL alone
\* give False, and so does a call that raised.
OracleReadsAchievedToken ==
    /\ opc = "answered" =>
          (goal_achieved <=>
              \E i \in 1..(Len(oracleText) - 1) :
                  /\ oracleText[i] \in {"GOAL_", "goal_"}
                  /\ oracleText[i + 1] \in {"ACHIEVED", "achieved"})
    /\ (opc = "answered" /\ oracleText \in {<<"GOAL_", "NOT_", "ACHIEVED">>,
                                            <<"GOAL_", "PARTIAL">>})
          => ~goal_achieved
    /\ opc = "raised" => ~goal_achieved

LowerCaseTokenAccepted ==
    /\ opc = "answered"
    /\ goal_achieved
    /\ Len(oracleText) = 4
    /\ oracleText[2] = "goal_"
    /\ oracleText[3] = "achieved"

\* C31: every observation snapshot taken while the loop is in step n is
\* tagged with n, the loop's own step counter.
SnapshotTaggedWithLoopStep ==
    obsTag # 0 => obsTag = current_step

\* C34: in the test script, the interactive mode and the WebSocket endpoint,
\* a shell that has left after a connect attempt has invoked cleanup.
CleanupOnEveryExit ==
    (/\ shell \in {"test", "interactive", "web"}
     /\ spc = "exit"
     /\ attempts > 0) => cleanups > 0

\* C35: at the head of every loop iteration the memory entries and the
\* failures add up to the steps taken.
LoopHeadAccounting ==
    pc = "loop" => Len(memory) + consecutive_failures = current_step

MixedStepsAccounted ==
    /\ pc = "loop"
    /\ Len(memory) = 2
    /\ consecutive_failures = 2
    /\ current_step = 4

RemoveKeyIdempotent ==
    cpc = "removed_twice" => schema = schema1

NestedKeyRemovedTwice ==
    /\ cpc = "removed_twice"
    /\ schema0.t = "dict"
    /\ \E i, j \in DOMAIN schema0.kids :
          /\ schema0.kids[i].k = target
          /\ schema0.kids[j].v.t = "dict"
          /\ \E l \in DOMAIN schema0.kids[j].v.kids :
                schema0.kids[j].v.kids[l].k = target
    /\ schema # schema0

\* The two structures agree on everything but the given key: a dict holds
\* the same other keys in the same order with values that agree, a list
\* has the same length with elements that agree, anything else is equal.
RECURSIVE SameExceptKey(_, _, _)
SameExceptKey(before, after, key) ==
    IF before.t = "dict"
    THEN LET b == SelectSeq(before.kids, LAMBDA e : e.k # key)
             a == SelectSeq(after.kids, LAMBDA e : e.k # key)
         IN
         /\ after.t = "dict"
         /\ Len(a) = Len(b)
         /\ \A i \in 1..Len(b) :
               /\ a[i].k = b[i].k
               /\ SameExceptKey(b[i].v, a[i].v, key)
    ELSE IF before.t = "list"
    THEN /\ after.t = "list"
         /\ Len(after.kids) = Len(before.kids)
         /\ \A i \in 1..Len(before.kids) :
               SameExceptKey(before.kids[i].v, after.kids[i].v, key)
    ELSE after = before

\* C39: remove_key changes nothing but occurrences of the target key:
\* every other key, every scalar and the order and length of every list are
\* as before, outside the subtrees removed with the key.
RemoveKeyFrame ==
    cpc = "removed" => SameExceptKey(schema0, schema, target)

SiblingOfRemovedKeyKept ==
    /\ cpc = "removed"
    /\ schema0.t = "dict"
    /\ Len(schema0.kids) = 2
    /\ schema0.kids[1].k = target
    /\ schema0.kids[2].v.t = "list"
    /\ Len(schema0.kids[2].v.kids) = 2
    /\ Len(schema.kids) = 1
    /\ schema.kids[1] = schema0.kids[2]

\* The text is a JSON object that holds a success flag.
HasExplicitFlag(text) ==
    /\ Len(text) = 5
    /\ text[1] = "{"
    /\ text[2] = "\"success\""
    /\ text[3] \in {": ", ":"}
    /\ text[4] \in {"true", "false"}
    /\ text[5] = "}"

\* C32: the logged success flag is the explicit flag of the output when
\* the output is structured data holding one and the substring heuristic
\* otherwise; a dispatch that raised or got no response or no content is
\* logged as failed.
SuccessClassification ==
    lpc = "logged" =>
        success_label =
            IF labelOutcome # "content" THEN FALSE
            ELSE IF HasExplicitFlag(rawText) THEN rawText[4] = "true"
            ELSE ContainsSuccessTrue(Lower(rawText))

\* C37: when render_scene returns, every play command it sent is followed
\* by a stop command.
PlayFollowedByStop ==
    rpc = "done" =>
        \A i \in DOMAIN editor :
            editor[i] = "play" =>
                \E j \in DOMAIN editor : j > i /\ editor[j] = "stop"

StopSentAfterPlayRaised ==
    /\ rpc = "done"
    /\ Len(trail) >= 2
    /\ trail[Len(trail) - 1] = <<"play", "raise">>
    /\ trail[Len(trail)] = <<"except", "raise">>
    /\ editor = <<"play", "stop">>
    /\ renderRet = "False"

\* C38: latest_scene_info changes only in a scene_info call that got a
\* response with content, and then becomes that text; a call that raises or
\* gets no response or content returns failure text and leaves it as it
\* was.
CacheChangesOnlyOnContent ==
    [][/\ latest_scene_info' # latest_scene_info
            => /\ Len(infoHist') = Len(infoHist) + 1
               /\ infoHist'[Len(infoHist')].kind = "content"
       /\ Len(infoHist') = Len(infoHist) + 1
            => LET reply == infoHist'[Len(infoHist')] IN
               IF reply.kind = "content"
               THEN /\ latest_scene_info' = reply.text
                    /\ infoReturn' = <<"retrieved", reply.text>>
               ELSE /\ latest_scene_info' = latest_scene_info
                    /\ infoReturn'[1] \in {"failed", "error"}]_vars

CacheKeptAfterFailedCall ==
    /\ Len(infoHist) >= 2
    /\ infoHist[Len(infoHist)].kind = "raise"
    /\ latest_scene_info = "hierarchy_a"
    /\ infoReturn[1] = "error"
    /\ promptInfo = "hierarchy_a"

====
